---- MODULE Spec2Model ----
(***************************************************************************)
(* Model of src/lambda/agent_handler.py: one invocation of handler(event,  *)
(* context), with its two sub-handlers handle_prompt_analysis and          *)
(* handle_s3_event and the three collaborators they call (object store     *)
(* get_object / put_object, and the Strands agent).                        *)
(*                                                                         *)
(* Python strings are sequences of fragments (TLA+ strings); strings the   *)
(* code inspects character by character (object keys, analysis texts) are  *)
(* sequences of one-character fragments.  The empty string is <<>>.        *)
(* Constructors (boto3.client, BedrockModel, Agent) are taken to succeed;  *)
(* the collaborator operations that can fail are get_object + body         *)
(* read/decode, the agent call, and put_object.                            *)
(***************************************************************************)
EXTENDS Integers, Sequences, FiniteSets, TLC

VARIABLES
    pc,          \* position of the invocation
    event,       \* the event dict
    context,     \* the Lambda context (None or an object with aws_request_id)
    route,       \* sub-handlers / branches entered by handler, in order
    frame,       \* local variables of handle_s3_event
    s3Calls,     \* calls made on the S3 client, in order, with their outcome
    agentCalls,  \* calls made on the agent, in order, with their outcome
    result,      \* the dict returned by handler (<<>> until it returns)
    raised       \* TRUE when an exception has propagated out of handler

vars == <<pc, event, context, route, frame, s3Calls, agentCalls, result, raised>>

----------------------------------------------------------------------------
(* Bounds of the model *)

\* analysis texts reach PreviewLimit + MaxExtra characters
MaxExtra == 2
\* number of distinct character patterns of each analysis text length
MaxSeed == 2

----------------------------------------------------------------------------
(* Values *)

\* a key that is not in the dict / the value None that dict.get returns for it
Absent == [t |-> "absent", v |-> <<>>]
Str(s) == [t |-> "str", v |-> s]
\* a value json.dumps cannot serialise (Dict[str, Any] admits it)
Opaque == [t |-> "object", v |-> <<>>]

\* Python truthiness of a value obtained with dict.get: None and "" are falsy
Truthy(x) == x.t = "str" /\ x.v # <<>>

\* `k in event`
HasKey(x) == x.t # "absent"

Alphabet == <<"a", "b", "c">>

\* an analysis text of n characters whose characters depend on position
Text(n, seed) == [i \in 1..n |-> Alphabet[((i * seed) % 3) + 1]]

CODE_ANALYSIS_SYSTEM_PROMPT ==
    << "You are a code analysis assistant with HTTP capabilities. You can:",
       "1. Analyze code files from S3 buckets",
       "2. Identify code quality issues, security vulnerabilities, and best practices",
       "3. Generate detailed analysis reports",
       "4. Make HTTP requests to external APIs for additional context",
       "When analyzing code:",
       "1. Focus on code quality, security, performance, and maintainability",
       "2. Identify potential bugs, security vulnerabilities, and anti-patterns",
       "3. Suggest improvements and best practices",
       "4. Provide clear, actionable recommendations",
       "5. Format your analysis in a structured, readable format",
       "Always provide constructive feedback and explain the reasoning behind your recommendations." >>

\* analysis_result[:500] / len(analysis_result) > 500
PreviewLimit == 500


----------------------------------------------------------------------------
(* Pure helpers of the handlers *)

\* context.aws_request_id if context else "unknown"
RequestId(ctx) == IF ctx.t = "absent" THEN <<"unknown">> ELSE ctx.v

\* round(processing_time, 3): elapsed microseconds to whole milliseconds
Round3(micros) == (micros + 500) \div 1000

\* 'source' in event and event['source'] == 'eventbridge'
IsEventBridge(ev) == HasKey(ev.source) /\ ev.source = Str(<<"eventbridge">>)

\* the if / elif / else of handler
Route_PromptFirst(ev) ==
    IF HasKey(ev.prompt) THEN "prompt"
    ELSE IF IsEventBridge(ev) THEN "s3"
    ELSE "default"

Route_AnySource(ev) ==
    IF HasKey(ev.source) THEN "s3"
    ELSE IF HasKey(ev.prompt) THEN "prompt"
    ELSE "default"

Route(ev) ==
    IF IsEventBridge(ev) THEN "s3"
    ELSE IF HasKey(ev.prompt) THEN "prompt"
    ELSE "default"

\* json.dumps(event) raises TypeError on a value that is not JSON
JsonDumpsRaises(ev) == \E f \in DOMAIN ev : ev[f].t = "object"

\* not bucket_name or not object_key
MissingBucketOrKey_And(bucket_name, object_key) ==
    ~Truthy(bucket_name) /\ ~Truthy(object_key)

MissingBucketOrKey(bucket_name, object_key) ==
    ~Truthy(bucket_name) \/ ~Truthy(object_key)

\* bytes.decode('utf-8') on the bytes the model uses: ASCII decodes, 255 does not
DecodeRaises(bytes) == \E i \in 1..Len(bytes) : bytes[i] >= 128

Chr(b) == CASE b = 112 -> "p" [] b = 49 -> "1" [] b = 10 -> "\n" [] OTHER -> "?"

Decode(bytes) == [i \in 1..Len(bytes) |-> Chr(bytes[i])]

\* str.lower() on the characters the model uses
LowerChar(c) == CASE c = "P" -> "p" [] c = "Y" -> "y" [] c = "R" -> "r" [] OTHER -> c

Lower(s) == [i \in 1..Len(s) |-> LowerChar(s[i])]

\* '.' in object_key
HasDot(s) == \E i \in 1..Len(s) : s[i] = "."

\* object_key.split('.')[-1]: what follows the last '.'
AfterLastDot(s) ==
    LET last == CHOOSE i \in 1..Len(s) :
                    s[i] = "." /\ \A j \in (i + 1)..Len(s) : s[j] # "."
    IN SubSeq(s, last + 1, Len(s))

\* object_key.split('.')[-1].lower() if '.' in object_key else 'unknown'
FileExtension(object_key) ==
    IF HasDot(object_key) THEN Lower(AfterLastDot(object_key)) ELSE <<"unknown">>

\* object_key.replace('/', '_')
ReplaceSlash(s) == [i \in 1..Len(s) |-> IF s[i] = "/" THEN "_" ELSE s[i]]

\* f"analysis/{object_key.replace('/', '_')}_{timestamp}_analysis.md"
OutputKey(object_key, timestamp) ==
    <<"analysis/">> \o ReplaceSlash(object_key) \o <<"_">> \o timestamp
        \o <<"_analysis.md">>

\* the Markdown code fence (three backquotes) of the analysis prompt
Fence == "<three backquotes>"

\* the f-string sent to the agent by handle_s3_event
AnalysisPrompt(file_extension, object_key, file_size, file_content) ==
    <<"Analyze this ">> \o file_extension \o <<" code file: ">> \o object_key
        \o <<"File size: ", ToString(file_size), " bytes">>
        \o <<"Code content:", Fence>> \o file_extension
        \o file_content
        \o << Fence,
              "Please provide a comprehensive analysis including:",
              "1. Code quality assessment",
              "2. Security vulnerabilities",
              "3. Performance considerations",
              "4. Best practices recommendations",
              "5. Specific improvements with code examples" >>

\* str(response)
StrOf(response) == response.text

\* the "..." appended to a truncated preview
Ellipsis == <<".", ".", ".">>

\* analysis_result[:500] + "..." if len(analysis_result) > 500 else analysis_result
AnalysisPreview_OffByOne(analysis_result) ==
    IF Len(analysis_result) >= PreviewLimit
    THEN SubSeq(analysis_result, 1, PreviewLimit) \o Ellipsis
    ELSE analysis_result

AnalysisPreview(analysis_result) ==
    IF Len(analysis_result) > PreviewLimit
    THEN SubSeq(analysis_result, 1, PreviewLimit) \o Ellipsis
    ELSE analysis_result


----------------------------------------------------------------------------
(* Returned dicts and except clauses.  An except clause yields what the    *)
(* invocation does next: where it continues, what it returns, and whether  *)
(* the exception leaves handler.                                           *)

Returns(envelope) == [pc |-> "returned", result |-> envelope, raised |-> FALSE]

\* the else branch of handler
DefaultEnvelope(request_id, micros) ==
    [ status |-> "success",
      message |-> <<"Code Analysis Strands Agent invoked">>,
      request_id |-> request_id,
      processing_time_seconds |-> Round3(micros),
      version |-> <<"1.0.0-strands">> ]

\* except Exception of handler
HandlerExcept_Reraise(e, request_id) ==
    [pc |-> "raised", result |-> <<>>, raised |-> TRUE]

HandlerExcept(e, request_id) ==
    Returns([ status |-> "error",
              message |-> <<"Internal server error: ">> \o e,
              request_id |-> request_id ])

\* the success dict of handle_prompt_analysis
PromptSuccessEnvelope_Truncated(request_id, analysis_result, micros, prompt) ==
    [ status |-> "success",
      message |-> <<"Code analysis completed">>,
      request_id |-> request_id,
      analysis |-> AnalysisPreview(analysis_result),
      processing_time_seconds |-> Round3(micros),
      input_prompt |-> prompt ]

PromptSuccessEnvelope(request_id, analysis_result, micros, prompt) ==
    [ status |-> "success",
      message |-> <<"Code analysis completed">>,
      request_id |-> request_id,
      analysis |-> analysis_result,
      processing_time_seconds |-> Round3(micros),
      input_prompt |-> prompt ]

\* except Exception of handle_prompt_analysis
PromptExcept(e, request_id) ==
    Returns([ status |-> "error",
              message |-> <<"Analysis failed: ">> \o e,
              request_id |-> request_id ])

\* the early return of handle_s3_event on a missing bucket or key
ValidationErrorEnvelope ==
    [ status |-> "error",
      message |-> <<"Missing bucket name or object key in S3 event">> ]

\* the inner except Exception of handle_s3_event around get_object
FetchExcept_NoDetail(e) ==
    Returns([ status |-> "error",
              message |-> <<"Failed to read file from S3">> ])

FetchExcept(e) ==
    Returns([ status |-> "error",
              message |-> <<"Failed to read file from S3: ">> \o e ])

\* the Metadata argument of s3_client.put_object
PutMetadata(fr, request_id) ==
    ("source-bucket" :> fr.bucket_name.v) @@ ("source-key" :> fr.object_key.v)
        @@ ("analysis-timestamp" :> fr.timestamp)
        @@ ("file-type" :> fr.file_extension) @@ ("request-id" :> request_id)

\* the arguments of s3_client.put_object
PutObjectArgs_PreviewBody(fr, request_id) ==
    [ op |-> "put_object",
      Bucket |-> fr.output_bucket.v,
      Key |-> fr.output_key,
      Body |-> AnalysisPreview(fr.analysis_result),
      ContentType |-> "text/markdown",
      Metadata |-> PutMetadata(fr, request_id) ]

PutObjectArgs(fr, request_id) ==
    [ op |-> "put_object",
      Bucket |-> fr.output_bucket.v,
      Key |-> fr.output_key,
      Body |-> fr.analysis_result,
      ContentType |-> "text/markdown",
      Metadata |-> PutMetadata(fr, request_id) ]

\* the except Exception around put_object: log and continue
PutExcept_Fatal(e) ==
    Returns([ status |-> "error",
              message |-> <<"Failed to save analysis to S3: ">> \o e ])

PutExcept(e) == [pc |-> "s3_result", result |-> <<>>, raised |-> FALSE]

\* the result dict of handle_s3_event
S3SuccessEnvelope(request_id, fr, micros) ==
    [ status |-> "success",
      message |-> <<"S3 code analysis completed">>,
      request_id |-> request_id,
      input |-> [ bucket |-> fr.bucket_name.v,
                  key |-> fr.object_key.v,
                  file_size |-> fr.file_size,
                  file_type |-> fr.file_extension ],
      output |-> [ bucket |-> fr.output_bucket,
                   key |-> IF Truthy(fr.output_bucket)
                           THEN Str(fr.output_key) ELSE Absent,
                   analysis_length |-> Len(fr.analysis_result) ],
      processing_time_seconds |-> Round3(micros),
      analysis_preview |-> AnalysisPreview(fr.analysis_result) ]

\* the outer except Exception of handle_s3_event
S3Except(e, request_id) ==
    Returns([ status |-> "error",
              message |-> <<"S3 analysis failed: ">> \o e,
              request_id |-> request_id ])

----------------------------------------------------------------------------
(* Inputs and collaborator outcomes *)

SourceValues == {Absent, Str(<<"eventbridge">>), Str(<<"aws.s3">>)}
PromptValues == {Absent, Str(<<>>), Str(<<"review this snippet">>)}
BucketValues == {Absent, Str(<<>>), Str(<<"src">>)}
KeyValues ==
    { Absent, Str(<<>>), Str(<<"a", ".", "P", "Y">>),
      Str(<<"d", "/", "a", ".", "p", "y">>), Str(<<"R">>) }
OutputBucketValues == {Absent, Str(<<>>), Str(<<"out">>)}
DetailValues == {Absent, Opaque}
ContextValues == {Absent, Str(<<"req-1">>)}

Events ==
    [ source : SourceValues, prompt : PromptValues, bucket : BucketValues,
      key : KeyValues, outputBucket : OutputBucketValues, detail : DetailValues ]

\* bodies of the stored object: empty, ASCII, and bytes that are not UTF-8
ObjectBodies == {<<>>, <<112, 49>>, <<255>>}

GetErrors == {<<"NoSuchKey">>, <<"AccessDenied">>}
DecodeError == <<"'utf-8' codec can't decode byte 0xff">>
AgentErrors == {<<"ThrottlingException">>}
PutErrors == {<<"AccessDenied">>}
JsonError == <<"Object of type set is not JSON serializable">>

TextLengths ==
    {0, 1, PreviewLimit - 1, PreviewLimit, PreviewLimit + 1, PreviewLimit + MaxExtra}
AgentTexts == {Text(n, seed) : n \in TextLengths, seed \in 1..MaxSeed}

\* datetime.now().strftime("%Y%m%d_%H%M%S")
Timestamps == {<<"20240101_000000">>, <<"20241231_235959">>}

\* time.time() - start_time, in microseconds
ElapsedMicros == {0, 1499}

NoFrame ==
    [ bucket_name |-> Absent, object_key |-> Absent, output_bucket |-> Absent,
      file_content |-> <<>>, file_size |-> 0, file_extension |-> <<>>,
      analysis_result |-> <<>>, timestamp |-> <<>>, output_key |-> <<>> ]


----------------------------------------------------------------------------
(* The invocation *)

Init ==
    /\ pc = "handler"
    /\ event \in Events
    /\ context \in ContextValues
    /\ route = <<>>
    /\ frame = NoFrame
    /\ s3Calls = <<>>
    /\ agentCalls = <<>>
    /\ result = <<>>
    /\ raised = FALSE

Continue(o) == pc' = o.pc /\ result' = o.result /\ raised' = o.raised

\* handler: the else branch builds the default response
HandlerDefault ==
    /\ pc = "handler"
    /\ Route(event) = "default"
    /\ route' = Append(route, "default")
    /\ \E micros \in ElapsedMicros :
          Continue(Returns(DefaultEnvelope(RequestId(context), micros)))
    /\ UNCHANGED <<event, context, frame, s3Calls, agentCalls>>

\* handler: the elif branch enters handle_prompt_analysis
HandlerPrompt ==
    /\ pc = "handler"
    /\ Route(event) = "prompt"
    /\ route' = Append(route, "handle_prompt_analysis")
    /\ pc' = "prompt_agent"
    /\ UNCHANGED <<event, context, frame, s3Calls, agentCalls, result, raised>>

\* handler: the if branch enters handle_s3_event
HandlerS3Event ==
    /\ pc = "handler"
    /\ Route(event) = "s3"
    /\ route' = Append(route, "handle_s3_event")
    /\ pc' = "s3_entry"
    /\ UNCHANGED <<event, context, frame, s3Calls, agentCalls, result, raised>>

\* handle_prompt_analysis: the agent answers
PromptAgentReturns ==
    /\ pc = "prompt_agent"
    /\ \E text \in AgentTexts, micros \in ElapsedMicros :
          LET prompt == event.prompt.v
              response == [text |-> text]
          IN /\ agentCalls' = Append(agentCalls,
                    [ system_prompt |-> CODE_ANALYSIS_SYSTEM_PROMPT,
                      prompt |-> prompt, outcome |-> "ok", returned |-> text ])
             /\ Continue(Returns(PromptSuccessEnvelope(
                    RequestId(context), StrOf(response), micros, prompt)))
    /\ UNCHANGED <<event, context, route, frame, s3Calls>>

\* handle_prompt_analysis: the agent call raises
PromptAgentRaises ==
    /\ pc = "prompt_agent"
    /\ \E e \in AgentErrors :
          /\ agentCalls' = Append(agentCalls,
                [ system_prompt |-> CODE_ANALYSIS_SYSTEM_PROMPT,
                  prompt |-> event.prompt.v, outcome |-> "raise", returned |-> <<>> ])
          /\ Continue(PromptExcept(e, RequestId(context)))
    /\ UNCHANGED <<event, context, route, frame, s3Calls>>

\* handle_s3_event: json.dumps(event), outside the try, raises
S3EntryDumpRaises ==
    /\ pc = "s3_entry"
    /\ JsonDumpsRaises(event)
    /\ Continue(HandlerExcept(JsonError, RequestId(context)))
    /\ UNCHANGED <<event, context, route, frame, s3Calls, agentCalls>>

\* handle_s3_event: bucket or key missing
S3ValidateMissing ==
    /\ pc = "s3_entry"
    /\ ~JsonDumpsRaises(event)
    /\ MissingBucketOrKey(event.bucket, event.key)
    /\ frame' = [frame EXCEPT !.bucket_name = event.bucket,
                              !.object_key = event.key,
                              !.output_bucket = event.outputBucket]
    /\ Continue(Returns(ValidationErrorEnvelope))
    /\ UNCHANGED <<event, context, route, s3Calls, agentCalls>>

\* handle_s3_event: bucket and key present
S3ValidateOk ==
    /\ pc = "s3_entry"
    /\ ~JsonDumpsRaises(event)
    /\ ~MissingBucketOrKey(event.bucket, event.key)
    /\ frame' = [frame EXCEPT !.bucket_name = event.bucket,
                              !.object_key = event.key,
                              !.output_bucket = event.outputBucket]
    /\ pc' = "s3_get"
    /\ UNCHANGED <<event, context, route, s3Calls, agentCalls, result, raised>>

GetObjectArgs(fr) ==
    [op |-> "get_object", Bucket |-> fr.bucket_name.v, Key |-> fr.object_key.v]

\* handle_s3_event: get_object, read and decode succeed
S3GetObjectReturns ==
    /\ pc = "s3_get"
    /\ \E bytes \in ObjectBodies :
          /\ ~DecodeRaises(bytes)
          /\ frame' = [frame EXCEPT !.file_content = Decode(bytes),
                                    !.file_size = Len(bytes)]
    /\ s3Calls' = Append(s3Calls, [call |-> GetObjectArgs(frame), outcome |-> "ok"])
    /\ pc' = "s3_agent"
    /\ UNCHANGED <<event, context, route, agentCalls, result, raised>>

\* handle_s3_event: get_object raises
S3GetObjectRaises ==
    /\ pc = "s3_get"
    /\ \E e \in GetErrors :
          /\ s3Calls' = Append(s3Calls,
                [call |-> GetObjectArgs(frame), outcome |-> "raise", error |-> e])
          /\ Continue(FetchExcept(e))
    /\ UNCHANGED <<event, context, route, frame, agentCalls>>

\* handle_s3_event: get_object succeeds, decoding the body raises
S3DecodeRaises ==
    /\ pc = "s3_get"
    /\ \E bytes \in ObjectBodies :
          /\ DecodeRaises(bytes)
          /\ s3Calls' = Append(s3Calls,
                [call |-> GetObjectArgs(frame), outcome |-> "undecodable",
                 error |-> DecodeError])
          /\ Continue(FetchExcept(DecodeError))
    /\ UNCHANGED <<event, context, route, frame, agentCalls>>

\* handle_s3_event: the agent answers; timestamp and output key are computed
S3AgentReturns ==
    /\ pc = "s3_agent"
    /\ \E text \in AgentTexts, ts \in Timestamps :
          LET ext == FileExtension(frame.object_key.v)
              prompt == AnalysisPrompt(ext, frame.object_key.v,
                                       frame.file_size, frame.file_content)
              response == [text |-> text]
          IN /\ agentCalls' = Append(agentCalls,
                    [ system_prompt |-> CODE_ANALYSIS_SYSTEM_PROMPT,
                      prompt |-> prompt, outcome |-> "ok", returned |-> text ])
             /\ frame' = [frame EXCEPT
                    !.file_extension = ext,
                    !.analysis_result = StrOf(response),
                    !.timestamp = ts,
                    !.output_key = OutputKey(frame.object_key.v, ts)]
    /\ pc' = "s3_put"
    /\ UNCHANGED <<event, context, route, s3Calls, result, raised>>

\* handle_s3_event: the agent call raises
S3AgentRaises ==
    /\ pc = "s3_agent"
    /\ \E e \in AgentErrors :
          LET ext == FileExtension(frame.object_key.v)
              prompt == AnalysisPrompt(ext, frame.object_key.v,
                                       frame.file_size, frame.file_content)
          IN /\ agentCalls' = Append(agentCalls,
                    [ system_prompt |-> CODE_ANALYSIS_SYSTEM_PROMPT,
                      prompt |-> prompt, outcome |-> "raise", returned |-> <<>> ])
             /\ frame' = [frame EXCEPT !.file_extension = ext]
             /\ Continue(S3Except(e, RequestId(context)))
    /\ UNCHANGED <<event, context, route, s3Calls>>

\* handle_s3_event: no output bucket, nothing is written
S3PutSkipped ==
    /\ pc = "s3_put"
    /\ ~Truthy(frame.output_bucket)
    /\ pc' = "s3_result"
    /\ UNCHANGED <<event, context, route, frame, s3Calls, agentCalls, result, raised>>

\* handle_s3_event: put_object succeeds
S3PutObjectReturns ==
    /\ pc = "s3_put"
    /\ Truthy(frame.output_bucket)
    /\ s3Calls' = Append(s3Calls,
          [call |-> PutObjectArgs(frame, RequestId(context)), outcome |-> "ok"])
    /\ pc' = "s3_result"
    /\ UNCHANGED <<event, context, route, frame, agentCalls, result, raised>>

\* handle_s3_event: put_object raises
S3PutObjectRaises ==
    /\ pc = "s3_put"
    /\ Truthy(frame.output_bucket)
    /\ \E e \in PutErrors :
          /\ s3Calls' = Append(s3Calls,
                [call |-> PutObjectArgs(frame, RequestId(context)),
                 outcome |-> "raise", error |-> e])
          /\ Continue(PutExcept(e))
    /\ UNCHANGED <<event, context, route, frame, agentCalls>>

\* handle_s3_event: the result dict is built and returned
S3Result ==
    /\ pc = "s3_result"
    /\ \E micros \in ElapsedMicros :
          Continue(Returns(S3SuccessEnvelope(RequestId(context), frame, micros)))
    /\ UNCHANGED <<event, context, route, frame, s3Calls, agentCalls>>

Next ==
    \/ HandlerDefault
    \/ HandlerPrompt
    \/ HandlerS3Event
    \/ PromptAgentReturns
    \/ PromptAgentRaises
    \/ S3EntryDumpRaises
    \/ S3ValidateMissing
    \/ S3ValidateOk
    \/ S3GetObjectReturns
    \/ S3GetObjectRaises
    \/ S3DecodeRaises
    \/ S3AgentReturns
    \/ S3AgentRaises
    \/ S3PutSkipped
    \/ S3PutObjectReturns
    \/ S3PutObjectRaises
    \/ S3Result

Spec == Init /\ [][Next]_vars


----------------------------------------------------------------------------
(* Properties *)

Returned == pc = "returned"

EventBridge == Str(<<"eventbridge">>)

GetCalls == SelectSeq(s3Calls, LAMBDA c : c.call.op = "get_object")
PutCalls == SelectSeq(s3Calls, LAMBDA c : c.call.op = "put_object")

\* e occurs in msg as a contiguous run of fragments
Contains(msg, e) ==
    \E i \in 0..(Len(msg) - Len(e)) : SubSeq(msg, i + 1, i + Len(e)) = e

IsDefaultEnvelope(r) ==
    /\ DOMAIN r = {"status", "message", "request_id", "processing_time_seconds", "version"}
    /\ r.status = "success"
    /\ r.message = <<"Code Analysis Strands Agent invoked">>
    /\ r.version = <<"1.0.0-strands">>

\* C1: every dict handler returns carries status, message and request_id
C1_AllFieldsPresent ==
    Returned => {"status", "message", "request_id"} \subseteq DOMAIN result

\* C2: whatever the collaborators do, the invocation never stops before it
\* returns, no exception leaves handler, and the returned status is
\* "success" or "error"
C2_AlwaysReturnsEnvelope ==
    /\ ~raised
    /\ pc # "raised"
    /\ Returned => result.status \in {"success", "error"}
    /\ ~Returned => ENABLED Next

C2_Witness ==
    /\ Returned
    /\ result.status = "error"
    /\ Len(GetCalls) = 1
    /\ Len(agentCalls) = 1
    /\ agentCalls[1].outcome = "raise"

\* C3 as stated: a request without bucket and key and without a non-empty
\* prompt (an empty prompt and source = "eventbridge" included) gets the
\* default envelope and no collaborator is called
C3_Original ==
    (~HasKey(event.bucket) /\ ~HasKey(event.key) /\ ~Truthy(event.prompt))
        => /\ agentCalls = <<>>
           /\ s3Calls = <<>>
           /\ Returned => IsDefaultEnvelope(result)

\* C3 amended: a request without bucket and key that carries no prompt field
\* at all and not source = "eventbridge" gets the default envelope and no
\* collaborator is called
C3_DefaultEnvelope ==
    ( /\ ~HasKey(event.bucket)
      /\ ~HasKey(event.key)
      /\ event.prompt.t = "absent"
      /\ event.source # EventBridge )
        => /\ agentCalls = <<>>
           /\ s3Calls = <<>>
           /\ pc \in {"handler", "returned"}
           /\ Returned => IsDefaultEnvelope(result)

C3_Witness ==
    /\ Returned
    /\ ~HasKey(event.bucket)
    /\ ~HasKey(event.key)
    /\ event.prompt.t = "absent"
    /\ event.source = Str(<<"aws.s3">>)
    /\ IsDefaultEnvelope(result)

\* C4: exactly one branch runs; source = "eventbridge" wins over a prompt
\* field (the raw prompt is then never sent to the agent), a prompt field
\* wins over the default
C4_RoutePriority ==
    /\ Len(route) = (IF pc = "handler" THEN 0 ELSE 1)
    /\ route # <<>> =>
          route[1] = (IF event.source = EventBridge THEN "handle_s3_event"
                      ELSE IF event.prompt.t # "absent" THEN "handle_prompt_analysis"
                      ELSE "default")
    /\ event.source = EventBridge =>
          /\ \A i \in 1..Len(agentCalls) : agentCalls[i].prompt # event.prompt.v
          /\ Returned => DOMAIN result \cap {"analysis", "input_prompt", "version"} = {}
    /\ (event.source # EventBridge /\ event.prompt.t # "absent") =>
          /\ s3Calls = <<>>
          /\ Returned => "version" \notin DOMAIN result
    /\ (event.source # EventBridge /\ event.prompt.t = "absent") =>
          /\ s3Calls = <<>>
          /\ agentCalls = <<>>

C4_Witness ==
    /\ Returned
    /\ event.source = EventBridge
    /\ Truthy(event.prompt)
    /\ Len(agentCalls) = 1
    /\ result.status = "success"
    /\ result.message = <<"S3 code analysis completed">>

\* C5: an event-sourced request with one of bucket and key present and the
\* other missing or empty returns status "error" and calls neither the
\* object store nor the agent
C5_ValidationError ==
    ( /\ event.source = EventBridge
      /\ \/ (HasKey(event.bucket) /\ ~Truthy(event.key))
         \/ (HasKey(event.key) /\ ~Truthy(event.bucket)) )
        => /\ s3Calls = <<>>
           /\ agentCalls = <<>>
           /\ Returned => result.status = "error"

C5_Witness ==
    /\ Returned
    /\ event.source = EventBridge
    /\ Truthy(event.bucket)
    /\ event.key.t = "absent"
    /\ result.status = "error"
    /\ result.message = <<"Missing bucket name or object key in S3 event">>

\* C6: a put_object is attempted only after the one agent call of the
\* invocation has returned, and its body is the text the agent returned;
\* when the agent call raises nothing is written and the status is "error"
C6_WriteAfterAnalysis ==
    /\ \A i \in 1..Len(PutCalls) :
          /\ Len(agentCalls) = 1
          /\ agentCalls[1].outcome = "ok"
          /\ PutCalls[i].call.Body = agentCalls[1].returned
    /\ (route = <<"handle_s3_event">>
          /\ \E j \in 1..Len(agentCalls) : agentCalls[j].outcome = "raise")
        => /\ PutCalls = <<>>
           /\ Returned
           /\ result.status = "error"

C6_Witness ==
    /\ Len(PutCalls) = 1
    /\ Len(PutCalls[1].call.Body) > 500
    /\ PutCalls[1].call.Body = agentCalls[1].returned

\* C7: when get_object or reading/decoding the body fails, the envelope has
\* status "error", its message contains the failure's message, the agent is
\* not called and nothing is written
C7_FetchError ==
    \A i \in 1..Len(GetCalls) :
        GetCalls[i].outcome # "ok"
            => /\ Returned
               /\ result.status = "error"
               /\ Contains(result.message, GetCalls[i].error)
               /\ agentCalls = <<>>
               /\ PutCalls = <<>>

C7_Witness ==
    /\ Returned
    /\ Len(GetCalls) = 1
    /\ GetCalls[1].outcome = "undecodable"
    /\ Truthy(event.outputBucket)

\* C8: when put_object is attempted, the returned envelope has status
\* "success" and its analysis_length, analysis_preview, output bucket and
\* output key are fixed by the agent text and the put_object arguments,
\* the same whether put_object raised or not
C8_WriteFailureNonFatal ==
    (Returned /\ PutCalls # <<>>)
        => LET text == agentCalls[1].returned
               put == PutCalls[1]
           IN /\ put.outcome \in {"ok", "raise"}
              /\ result.status = "success"
              /\ result.output.analysis_length = Len(text)
              /\ result.analysis_preview =
                    (IF Len(text) > 500
                     THEN SubSeq(text, 1, 500) \o <<".", ".", ".">> ELSE text)
              /\ result.output.bucket = event.outputBucket
              /\ result.output.bucket.v = put.call.Bucket
              /\ result.output.key = Str(put.call.Key)

C8_Witness ==
    /\ Returned
    /\ Len(PutCalls) = 1
    /\ PutCalls[1].outcome = "raise"
    /\ result.status = "success"
    /\ result.output.analysis_length > 500

\* C9: the direct-prompt path never touches the object store, calls the
\* agent once with the prompt verbatim, returns the agent text in full with
\* the prompt echoed on success, and status "error" when the agent raises
C9_PromptPath ==
    route = <<"handle_prompt_analysis">>
        => /\ s3Calls = <<>>
           /\ Len(agentCalls) = (IF Returned THEN 1 ELSE 0)
           /\ Returned =>
                 /\ agentCalls[1].prompt = event.prompt.v
                 /\ agentCalls[1].outcome = "ok" =>
                       /\ result.status = "success"
                       /\ result.analysis = agentCalls[1].returned
                       /\ result.input_prompt = event.prompt.v
                 /\ agentCalls[1].outcome = "raise" => result.status = "error"

C9_Witness ==
    /\ Returned
    /\ route = <<"handle_prompt_analysis">>
    /\ event.prompt = Str(<<"review this snippet">>)
    /\ result.status = "success"
    /\ Len(result.analysis) > 500

\* C10: in a success envelope of the event-sourced path the preview is the
\* text itself up to 500 characters, else its first 500 characters plus
\* "..." (503 characters); analysis_length is the length of the text
C10_Preview ==
    (Returned /\ route = <<"handle_s3_event">> /\ result.status = "success")
        => LET text == agentCalls[1].returned
               preview == result.analysis_preview
           IN /\ result.output.analysis_length = Len(text)
              /\ Len(text) <= 500 => preview = text
              /\ Len(text) > 500 =>
                    /\ Len(preview) = 503
                    /\ SubSeq(preview, 1, 500) = SubSeq(text, 1, 500)
                    /\ SubSeq(preview, 501, 503) = <<".", ".", ".">>

C10_Witness ==
    /\ Returned
    /\ route = <<"handle_s3_event">>
    /\ result.status = "success"
    /\ result.output.analysis_length = 501
    /\ Len(result.analysis_preview) = 503

====
